---- MODULE Spec2Model ----
(***************************************************************************)
(* Model of misconfig-configobfuscator (src/main.py): the ConfigObfuscator *)
(* class (load_config, obfuscate_config, save_config) and main.            *)
(*                                                                         *)
(* Text is a sequence of one-character strings, so that re.search is       *)
(* computed character by character.  A document is a tagged record:        *)
(*   [kind |-> "str", text], [kind |-> "num", num], [kind |-> "bool",      *)
(*   flag], [kind |-> "null"], [kind |-> "map", entries], [kind |-> "seq", *)
(*   items]; a mapping's entries are an ordered sequence of [key, val]     *)
(*   records (a Python dict keeps insertion order).                        *)
(***************************************************************************)
EXTENDS Integers, Sequences, FiniteSets

VARIABLES
    pc,            \* position of main: "start", "load", "branch", "save", "done", "crashed"
    file_open,     \* outcome of open(input_file): "missing", "ok", "FileNotFoundError", "PermissionError"
    yaml_result,   \* what yaml.safe_load gives on the file content (ParseFail or a document)
    json_result,   \* what json.loads gives on the file content (ParseFail or a document)
    out_ext,       \* extension of output_file
    out_writable,  \* whether open(output_file, 'w') succeeds
    placeholder,   \* self.placeholder
    config,        \* the document held by main / passed to obfuscate_config
    original,      \* the document as it was before any redaction (snapshot)
    applied,       \* number of obfuscate_config calls made on config
    load_status,   \* which return of load_config was taken
    save_called,   \* whether save_config was invoked
    out_file,      \* the output file: Untouched, or [format, doc] once written
    exit_code,     \* value returned by main (NoCode until it returns)
    raised         \* exception that left main uncaught ("none" otherwise)

vars == <<pc, file_open, yaml_result, json_result, out_ext, out_writable,
          placeholder, config, original, applied, load_status, save_called,
          out_file, exit_code, raised>>

----------------------------------------------------------------------------
(* Bounds *)

\* documents of the redaction specification have at most MaxNodes nodes
MaxNodes == 4
\* documents of the run specification have at most RunNodes nodes
RunNodes == 2
\* obfuscate_config is applied at most MaxApply times in a row
MaxApply == 2

----------------------------------------------------------------------------
(* Text *)

Upper == <<"A","B","C","D","E","F","G","H","I","J","K","L","M",
           "N","O","P","Q","R","S","T","U","V","W","X","Y","Z">>
LowerOf == <<"a","b","c","d","e","f","g","h","i","j","k","l","m",
             "n","o","p","q","r","s","t","u","v","w","x","y","z">>

\* re.IGNORECASE folds the case of each character
Fold(c) == IF \E i \in 1..26 : Upper[i] = c
           THEN LowerOf[CHOOSE i \in 1..26 : Upper[i] = c]
           ELSE c

\* \s of a str pattern
IsSpace(c) == c \in {" ", "\t", "\n", "\r", "\f"}

Quoted(w) == <<"\"">> \o w \o <<"\"">>

w_password    == <<"p","a","s","s","w","o","r","d">>
w_api_key     == <<"a","p","i","_","k","e","y">>
w_secret      == <<"s","e","c","r","e","t">>
w_token       == <<"t","o","k","e","n">>
w_access_key  == <<"a","c","c","e","s","s","_","k","e","y">>
w_credentials == <<"c","r","e","d","e","n","t","i","a","l","s">>

\* self.patterns: each pattern is (LITERAL\s*:).* ; the literal is kept here
patterns == << w_password, w_api_key, w_secret, w_token, w_access_key,
               w_credentials,
               Quoted(w_password), Quoted(w_api_key), Quoted(w_secret),
               Quoted(w_token), Quoted(w_access_key), Quoted(w_credentials) >>

\* the literal lit occurs in text at position i, ignoring case
LiteralAt(lit, text, i) ==
    /\ i + Len(lit) - 1 <= Len(text)
    /\ \A k \in 1..Len(lit) : Fold(text[i + k - 1]) = Fold(lit[k])

\* re.search(r"(LIT\s*:).*", text, re.IGNORECASE) is not None
re_search(lit, text) ==
    \E i \in 1..Len(text) :
        /\ LiteralAt(lit, text, i)
        /\ \E j \in (i + Len(lit))..Len(text) :
              /\ text[j] = ":"
              /\ \A k \in (i + Len(lit))..(j - 1) : IsSpace(text[k])

\* the loop "for pattern in self.patterns: if re.search(...)" finds a match
any_pattern(text) == \E n \in 1..Len(patterns) : re_search(patterns[n], text)

----------------------------------------------------------------------------
(* Documents *)

Str(t)  == [kind |-> "str", text |-> t]
Num(n)  == [kind |-> "num", num |-> n]
Bool(b) == [kind |-> "bool", flag |-> b]
Null    == [kind |-> "null"]
Map(es) == [kind |-> "map", entries |-> es]
List(xs) == [kind |-> "seq", items |-> xs]
Entry(k, v) == [key |-> k, val |-> v]

IsScalar(d) == d.kind \in {"str", "num", "bool", "null"}

----------------------------------------------------------------------------
(* Inputs: the keys, string values and placeholders documents are built of *)

k_password == w_password                          \* "password"
k_token    == <<"T","o","k","e","n",":">>         \* "Token:"
k_host     == <<"h","o","s","t">>                 \* "host"
v_hunter2  == <<"h","u","n","t","e","r","2">>     \* "hunter2"
v_secret   == w_secret \o <<":"," ","a","b","c">> \* "secret: abc"
\* the default placeholder "<REDACTED>"
p_redacted == <<"<","R","E","D","A","C","T","E","D",">">>
\* a placeholder that itself matches a pattern: "\"api_key\" :"
p_matching == Quoted(w_api_key) \o <<" ", ":">>

Keys         == {k_password, k_token, k_host}
\* the scalars inside documents: a plain string, a string with sensitive
\* content, and a scalar that is not a string
Leaves       == {Str(v_hunter2), Str(v_secret), Num(42)}
\* further scalars a file can consist of (YAML null, booleans, 0, "")
RootScalars  == {Null, Bool(TRUE), Bool(FALSE), Num(0), Str(<<>>)}
Placeholders == {p_redacted, p_matching}

RECURSIVE DocTable(_)

\* the documents by number of nodes: docs[k] are the documents with exactly k
\* nodes, items[m + 1] the sequences of documents with m nodes in total,
\* entries[m + 1] the sequences of entries with distinct keys and m value
\* nodes in total
DocTable(n) ==
    IF n = 0 THEN [docs |-> <<>>, items |-> <<>>, entries |-> <<>>]
    ELSE LET t == DocTable(n - 1)
             its == IF n = 1 THEN {<<>>}
                    ELSE UNION { { <<d>> \o rest :
                                     d \in t.docs[k], rest \in t.items[n - k] }
                                 : k \in 1..(n - 1) }
             ens == IF n = 1 THEN {<<>>}
                    ELSE UNION { { <<Entry(c[1], d)>> \o rest :
                                     d \in t.docs[c[2]],
                                     rest \in { r \in t.entries[n - c[2]] :
                                                  \A i \in 1..Len(r) : r[i].key # c[1] } }
                                 : c \in Keys \X (1..(n - 1)) }
             ds  == (IF n = 1 THEN Leaves ELSE {})
                      \cup { Map(es) : es \in ens }
                      \cup { List(xs) : xs \in its }
         IN  [docs    |-> Append(t.docs, ds),
              items   |-> Append(t.items, its),
              entries |-> Append(t.entries, ens)]

\* the documents with at most n nodes
Docs(n) == LET t == DocTable(n) IN UNION { t.docs[k] : k \in 1..n }

\* the documents the loader can return to main
RunDocs == Docs(RunNodes) \cup RootScalars

\* the parts a document with a Mapping at the root is put together from
Parts == DocTable(MaxNodes - 1)

----------------------------------------------------------------------------
(* ConfigObfuscator.obfuscate_config *)

RECURSIVE obfuscate_config(_, _), obfuscate_value(_, _)

\* obfuscate_value with the placeholder put in front of a matching string
\* instead of replacing it
obfuscate_value_prepend(value, p) ==
    IF value.kind = "str"
    THEN IF any_pattern(value.text) THEN Str(p \o value.text) ELSE value
    ELSE IF value.kind = "map"
    THEN obfuscate_config(value, p)
    ELSE IF value.kind = "seq"
    THEN List([i \in 1..Len(value.items) |-> obfuscate_value(value.items[i], p)])
    ELSE value

\* obfuscate_value without the recursion into a list inside a list
obfuscate_value_flat(value, p) ==
    IF value.kind = "str"
    THEN IF any_pattern(value.text) THEN Str(p) ELSE value
    ELSE IF value.kind = "map"
    THEN obfuscate_config(value, p)
    ELSE value

\* the nested function obfuscate_value
obfuscate_value(value, p) ==
    IF value.kind = "str"
    THEN IF any_pattern(value.text) THEN Str(p) ELSE value
    ELSE IF value.kind = "map"
    THEN obfuscate_config(value, p)
    ELSE IF value.kind = "seq"
    THEN List([i \in 1..Len(value.items) |-> obfuscate_value(value.items[i], p)])
    ELSE value

\* the loop body with the key checked before the type of the value
entry_value_any_type(key, value, p) ==
    IF any_pattern(key) THEN Str(p)
    ELSE IF value.kind = "map"
    THEN obfuscate_config(value, p)
    ELSE IF value.kind = "seq"
    THEN List([i \in 1..Len(value.items) |-> obfuscate_value(value.items[i], p)])
    ELSE value

\* the loop body with the key check left out
entry_value_every_string(key, value, p) ==
    IF value.kind = "str"
    THEN Str(p)
    ELSE IF value.kind = "map"
    THEN obfuscate_config(value, p)
    ELSE IF value.kind = "seq"
    THEN List([i \in 1..Len(value.items) |-> obfuscate_value(value.items[i], p)])
    ELSE value

\* one iteration of "for key, value in config.items()": the value config[key]
\* holds afterwards
entry_value(key, value, p) ==
    IF value.kind = "str"
    THEN IF any_pattern(key) THEN Str(p) ELSE value
    ELSE IF value.kind = "map"
    THEN obfuscate_config(value, p)
    ELSE IF value.kind = "seq"
    THEN List([i \in 1..Len(value.items) |-> obfuscate_value(value.items[i], p)])
    ELSE value

\* the loop assigns to existing keys only, so the order of the entries stays
obfuscate_config(cfg, p) ==
    Map([i \in 1..Len(cfg.entries) |->
           Entry(cfg.entries[i].key,
                 entry_value(cfg.entries[i].key, cfg.entries[i].val, p))])


----------------------------------------------------------------------------
(* ConfigObfuscator.load_config, save_config and main *)

ParseFail == [kind |-> "fail"]
Untouched == [state |-> "untouched"]
Written(fmt, d) == [state |-> "written", format |-> fmt, doc |-> d]

\* main without the test of what load_config returned
Truthy_unchecked(d) == TRUE

\* Python truth value of a loaded document ("if config:")
Truthy(d) ==
    CASE d.kind = "null" -> FALSE
      [] d.kind = "bool" -> d.flag
      [] d.kind = "num"  -> d.num # 0
      [] d.kind = "str"  -> d.text # <<>>
      [] d.kind = "map"  -> d.entries # <<>>
      [] d.kind = "seq"  -> d.items # <<>>

\* load_config: the value returned and the return statement that gave it;
\* every failure returns None, as does a document that is YAML null
load_config ==
    IF file_open = "FileNotFoundError" THEN [config |-> Null, status |-> "not_found"]
    ELSE IF file_open # "ok"           THEN [config |-> Null, status |-> "io_error"]
    ELSE IF yaml_result # ParseFail    THEN [config |-> yaml_result, status |-> "yaml"]
    ELSE IF json_result # ParseFail    THEN [config |-> json_result, status |-> "json"]
    ELSE [config |-> Null, status |-> "unrecognized"]

\* the serializer save_config picks from the extension of output_file
format_of(ext) ==
    IF ext \in {".yaml", ".yml"} THEN "yaml"
    ELSE IF ext = ".json" THEN "json"
    ELSE "yaml"

Init ==
    /\ pc = "start"
    /\ placeholder \in Placeholders
    /\ out_ext \in {".yaml", ".json", ".txt"}
    /\ out_writable \in BOOLEAN
    /\ \/ /\ file_open \in {"missing", "FileNotFoundError", "PermissionError"}
          /\ yaml_result = ParseFail
          /\ json_result = ParseFail
       \/ /\ file_open = "ok"
          /\ \/ yaml_result = ParseFail /\ json_result = ParseFail
             \/ yaml_result = ParseFail /\ json_result \in RunDocs
             \/ yaml_result \in RunDocs /\ json_result = yaml_result
    /\ config = Null
    /\ original = Null
    /\ applied = 0
    /\ load_status = "not_called"
    /\ save_called = FALSE
    /\ out_file = Untouched
    /\ exit_code = -1
    /\ raised = "none"

\* main: "if not os.path.exists(args.input_file): return 1"
CheckInput ==
    /\ pc = "start"
    /\ IF file_open = "missing"
       THEN pc' = "done" /\ exit_code' = 1
       ELSE pc' = "load" /\ UNCHANGED exit_code
    /\ UNCHANGED <<file_open, yaml_result, json_result, out_ext, out_writable,
                   placeholder, config, original, applied, load_status,
                   save_called, out_file, raised>>

\* main: "config = obfuscator.load_config()"
LoadConfig ==
    /\ pc = "load"
    /\ config' = load_config.config
    /\ original' = load_config.config
    /\ load_status' = load_config.status
    /\ pc' = "branch"
    /\ UNCHANGED <<file_open, yaml_result, json_result, out_ext, out_writable,
                   placeholder, applied, save_called, out_file, exit_code, raised>>

\* main: "if config: obfuscated_config = obfuscator.obfuscate_config(config)";
\* config.items() raises AttributeError when config is not a dict
Obfuscate ==
    /\ pc = "branch"
    /\ Truthy(config)
    /\ applied' = applied + 1
    /\ IF config.kind = "map"
       THEN /\ config' = obfuscate_config(config, placeholder)
            /\ pc' = "save"
            /\ UNCHANGED raised
       ELSE /\ raised' = "AttributeError"
            /\ pc' = "crashed"
            /\ UNCHANGED config
    /\ UNCHANGED <<file_open, yaml_result, json_result, out_ext, out_writable,
                   placeholder, original, load_status, save_called, out_file,
                   exit_code>>

\* main: "else: return 1" of "if config:"
ReturnNoConfig ==
    /\ pc = "branch"
    /\ ~Truthy(config)
    /\ exit_code' = 1
    /\ pc' = "done"
    /\ UNCHANGED <<file_open, yaml_result, json_result, out_ext, out_writable,
                   placeholder, config, original, applied, load_status,
                   save_called, out_file, raised>>

\* main: "if obfuscator.save_config(obfuscated_config): return 0 else: return 1";
\* out_file records the serializer used and the document handed to it
SaveConfig ==
    /\ pc = "save"
    /\ save_called' = TRUE
    /\ IF out_writable
       THEN out_file' = Written(format_of(out_ext), config) /\ exit_code' = 0
       ELSE UNCHANGED out_file /\ exit_code' = 1
    /\ pc' = "done"
    /\ UNCHANGED <<file_open, yaml_result, json_result, out_ext, out_writable,
                   placeholder, config, original, applied, load_status, raised>>

Next == CheckInput \/ LoadConfig \/ Obfuscate \/ ReturnNoConfig \/ SaveConfig

Spec == Init /\ [][Next]_vars

----------------------------------------------------------------------------
(* obfuscate_config applied to a document with a Mapping at the root, and *)
(* applied again to its own result                                        *)

RedactInit ==
    /\ pc = "call"
    /\ placeholder \in Placeholders
    /\ \/ config = Map(<<>>)
       \/ \E k \in 1..(MaxNodes - 1) : \E m \in 0..(MaxNodes - 1 - k) :
            \E key \in Keys : \E d \in Parts.docs[k] :
              \E rest \in Parts.entries[m + 1] :
                 /\ \A i \in 1..Len(rest) : rest[i].key # key
                 /\ config = Map(<<Entry(key, d)>> \o rest)
    /\ original = config
    /\ applied = 0
    /\ file_open = "ok"
    /\ yaml_result = ParseFail
    /\ json_result = ParseFail
    /\ out_ext = ".yaml"
    /\ out_writable = TRUE
    /\ load_status = "not_called"
    /\ save_called = FALSE
    /\ out_file = Untouched
    /\ exit_code = -1
    /\ raised = "none"

Redact ==
    /\ pc = "call"
    /\ applied < MaxApply
    /\ config' = obfuscate_config(config, placeholder)
    /\ applied' = applied + 1
    /\ UNCHANGED <<pc, file_open, yaml_result, json_result, out_ext,
                   out_writable, placeholder, original, load_status,
                   save_called, out_file, exit_code, raised>>

RedactNext == Redact

RedactSpec == RedactInit /\ [][RedactNext]_vars


----------------------------------------------------------------------------
(* Properties of obfuscate_config, checked under RedactSpec.  original is  *)
(* the document D, config is obfuscate_config(D) once applied = 1.         *)

\* the key names the patterns are written for
SensitiveNames == {w_password, w_api_key, w_secret, w_token, w_access_key,
                   w_credentials}

RECURSIVE NamedKeysRedacted(_, _, _), KeyPriority(_, _, _), SameShape(_, _),
          OnlyPlaceholder(_, _, _), NoMatchAnywhere(_), ValueTextChecked(_, _, _),
          SeqRedacted(_, _, _), SequencesRedacted(_, _, _)

\* in mapping o and the mappings under it, r has the placeholder where o has
\* a string under a sensitive key name, and the scalar o has under a sibling
\* key that is not sensitive
NamedKeysRedacted(o, r, p) ==
    /\ r.kind = "map"
    /\ Len(r.entries) = Len(o.entries)
    /\ \A i \in 1..Len(o.entries) :
         LET key == o.entries[i].key
             v   == o.entries[i].val
             w   == r.entries[i].val
         IN  /\ (key \in SensitiveNames /\ v.kind = "str") => w = Str(p)
             /\ ( /\ key \notin SensitiveNames
                  /\ ~any_pattern(key)
                  /\ IsScalar(v)
                  /\ ~(v.kind = "str" /\ any_pattern(v.text)) ) => w = v
             /\ (key \notin SensitiveNames /\ ~any_pattern(key) /\ v.kind = "map")
                  => NamedKeysRedacted(v, w, p)

\* C1: after obfuscate_config, every entry with a sensitive key name
\* (password, api_key, secret, token, access_key, credentials) and a string
\* value holds the placeholder, in the root mapping and in every mapping
\* reached through map values, and its non-sensitive siblings keep their
\* values.
C1_NamedKeysRedacted ==
    applied = 1 => NamedKeysRedacted(original, config, placeholder)

\* in mapping o and the mappings under it, r has the placeholder under every
\* key that matches a pattern, whatever o has there
KeyPriority(o, r, p) ==
    /\ r.kind = "map"
    /\ Len(r.entries) = Len(o.entries)
    /\ \A i \in 1..Len(o.entries) :
         LET key == o.entries[i].key
             v   == o.entries[i].val
             w   == r.entries[i].val
         IN  /\ any_pattern(key) => w = Str(p)
             /\ (~any_pattern(key) /\ v.kind = "map") => KeyPriority(v, w, p)

\* C2: after obfuscate_config, every entry whose key matches a sensitivity
\* pattern holds the placeholder as its whole value, whatever kind the value
\* was (Mapping, Sequence, string, number, boolean, null).
C2_KeyPriority ==
    applied = 1 => KeyPriority(original, config, placeholder)

\* o and r have the same node kind at every position, mappings the same keys
\* in the same order, sequences the same length
SameShape(o, r) ==
    IF o.kind = "map"
    THEN /\ r.kind = "map"
         /\ Len(r.entries) = Len(o.entries)
         /\ \A i \in 1..Len(o.entries) :
              /\ r.entries[i].key = o.entries[i].key
              /\ SameShape(o.entries[i].val, r.entries[i].val)
    ELSE IF o.kind = "seq"
    THEN /\ r.kind = "seq"
         /\ Len(r.items) = Len(o.items)
         /\ \A i \in 1..Len(o.items) : SameShape(o.items[i], r.items[i])
    ELSE IsScalar(r)

\* C3: shape preservation: obfuscate_config(D) has the same keys in the same
\* order, the same sequence lengths and the same node kind as D at every
\* position.
C3_ShapePreserved ==
    applied >= 1 => SameShape(original, config)

\* a mapping under it has a nested mapping and a value was replaced
C3_Witness ==
    /\ applied = 1
    /\ config # original
    /\ \E i \in 1..Len(config.entries) :
         /\ config.entries[i].val.kind = "map"
         /\ config.entries[i].val.entries # <<>>
         /\ config.entries[i].val # original.entries[i].val

\* C4: idempotence: applying obfuscate_config to its own result, with the
\* same placeholder, changes nothing, also when the placeholder itself
\* matches a pattern.
C4_Idempotent == [][applied >= 1 => config' = config]_vars

\* the second application met a placeholder that matches a pattern, in a list
C4_Witness ==
    /\ applied = 2
    /\ placeholder = p_matching
    /\ any_pattern(placeholder)
    /\ \E i \in 1..Len(config.entries) :
         /\ config.entries[i].val.kind = "seq"
         /\ \E j \in 1..Len(config.entries[i].val.items) :
              /\ config.entries[i].val.items[j] = Str(placeholder)
              /\ original.entries[i].val.items[j] # Str(placeholder)

\* every scalar of r is the scalar o has at that position or the placeholder
OnlyPlaceholder(o, r, p) ==
    IF o.kind = "map"
    THEN /\ r.kind = "map"
         /\ Len(r.entries) = Len(o.entries)
         /\ \A i \in 1..Len(o.entries) :
              /\ r.entries[i].key = o.entries[i].key
              /\ OnlyPlaceholder(o.entries[i].val, r.entries[i].val, p)
    ELSE IF o.kind = "seq"
    THEN /\ r.kind = "seq"
         /\ Len(r.items) = Len(o.items)
         /\ \A i \in 1..Len(o.items) : OnlyPlaceholder(o.items[i], r.items[i], p)
    ELSE r = o \/ r = Str(p)

\* no mapping key and no string value anywhere in d matches a pattern
NoMatchAnywhere(d) ==
    IF d.kind = "map"
    THEN \A i \in 1..Len(d.entries) :
           /\ ~any_pattern(d.entries[i].key)
           /\ NoMatchAnywhere(d.entries[i].val)
    ELSE IF d.kind = "seq"
    THEN \A i \in 1..Len(d.items) : NoMatchAnywhere(d.items[i])
    ELSE d.kind = "str" => ~any_pattern(d.text)

\* C8: redaction only substitutes the placeholder: every scalar of
\* obfuscate_config(D) is the scalar of D at that position or the
\* placeholder, and a document in which no key and no string value matches
\* a pattern is returned unchanged.
C8_OnlyPlaceholder ==
    applied = 1 =>
       /\ OnlyPlaceholder(original, config, placeholder)
       /\ NoMatchAnywhere(original) => config = original

\* one value was replaced by the placeholder and a number beside it was kept
C8_Witness ==
    /\ applied = 1
    /\ \E i, j \in 1..Len(config.entries) :
         /\ original.entries[i].val = Str(v_hunter2)
         /\ config.entries[i].val = Str(placeholder)
         /\ original.entries[j].val = Num(42)
         /\ config.entries[j].val = Num(42)

\* in mapping o and the mappings under it, a string under a key that matches
\* no pattern is checked by its own text
ValueTextChecked(o, r, p) ==
    /\ r.kind = "map"
    /\ Len(r.entries) = Len(o.entries)
    /\ \A i \in 1..Len(o.entries) :
         LET key == o.entries[i].key
             v   == o.entries[i].val
             w   == r.entries[i].val
         IN  /\ (~any_pattern(key) /\ v.kind = "str")
                  => w = (IF any_pattern(v.text) THEN Str(p) ELSE v)
             /\ v.kind = "map" => ValueTextChecked(v, w, p)

\* C9: a string value under a key that matches no pattern is replaced by the
\* placeholder when its own text matches a pattern, and is left unchanged
\* otherwise.
C9_ValueTextChecked ==
    applied = 1 => ValueTextChecked(original, config, placeholder)

\* r is the sequence o redacted element by element
SeqRedacted(o, r, p) ==
    /\ r.kind = "seq"
    /\ Len(r.items) = Len(o.items)
    /\ \A i \in 1..Len(o.items) :
         LET v == o.items[i]
             w == r.items[i]
         IN  CASE v.kind = "str" ->
                    w = (IF any_pattern(v.text) THEN Str(p) ELSE v)
               [] v.kind = "map" -> w = obfuscate_config(v, p)
               [] v.kind = "seq" -> SeqRedacted(v, w, p)
               [] OTHER -> w = v

\* in mapping o and the mappings under it, every sequence under a key that
\* matches no pattern is redacted element by element
SequencesRedacted(o, r, p) ==
    /\ r.kind = "map"
    /\ Len(r.entries) = Len(o.entries)
    /\ \A i \in 1..Len(o.entries) :
         LET key == o.entries[i].key
             v   == o.entries[i].val
             w   == r.entries[i].val
         IN  /\ (~any_pattern(key) /\ v.kind = "seq") => SeqRedacted(v, w, p)
             /\ v.kind = "map" => SequencesRedacted(v, w, p)

\* C10: a sequence under a non-sensitive key keeps its length and order; a
\* string element whose text matches a pattern becomes the placeholder, any
\* other scalar is unchanged, a Mapping element is redacted like a top-level
\* mapping and a Sequence element is processed element by element.
C10_SequencesRedacted ==
    applied = 1 => SequencesRedacted(original, config, placeholder)

\* ["secret: abc", "hunter2"] became [placeholder, "hunter2"]
C10_Witness ==
    /\ applied = 1
    /\ \E i \in 1..Len(config.entries) :
         /\ ~any_pattern(config.entries[i].key)
         /\ original.entries[i].val = List(<<Str(v_secret), Str(v_hunter2)>>)
         /\ config.entries[i].val = List(<<Str(placeholder), Str(v_hunter2)>>)


----------------------------------------------------------------------------
(* Properties of a run of main, checked under Spec *)

\* load_config took one of its failure returns, or main found no input file
LoadFailed ==
    \/ load_status \in {"not_found", "io_error", "unrecognized"}
    \/ file_open = "missing" /\ pc = "done"

\* load_config returned a document it parsed from the file
LoadSucceeded == load_status \in {"yaml", "json"} /\ original # Null

\* C5: when the load fails (the input is neither YAML nor JSON, or the file
\* is missing or unreadable), obfuscate_config and save_config are never
\* invoked, the output file stays untouched, no exception escapes and the
\* only way on is the return of a non-zero code.
C5_FailedLoadWritesNothing ==
    LoadFailed =>
       /\ applied = 0
       /\ ~save_called
       /\ out_file = Untouched
       /\ raised = "none"
       /\ pc \in {"branch", "done"}
       /\ pc = "branch" => ~Truthy(config)
       /\ pc = "done" => exit_code = 1

\* a file that is neither YAML nor JSON made main return 1
C5_Witness ==
    /\ pc = "done"
    /\ load_status = "unrecognized"
    /\ file_open = "ok"
    /\ exit_code = 1
    /\ out_file = Untouched

\* C6: main returns 0 exactly when the input was loaded and the redacted
\* document was written; a run whose input parses and whose output path is
\* writable writes the output and returns 0.
C6_ExitCodeMatchesOutcome ==
    pc = "done" =>
       /\ exit_code = 0 <=> (LoadSucceeded /\ out_file # Untouched)
       /\ (LoadSucceeded /\ out_writable) => (exit_code = 0 /\ out_file # Untouched)

\* C7: no stage of a run ends it with an uncaught exception, whatever
\* document the loader returned (Mapping, Sequence or Scalar at the root).
C7_NoUncaughtException ==
    raised = "none" /\ pc # "crashed"


====
